---- MODULE Spec2Model ----
(***************************************************************************)
(* Volume assembly engine of Comic-Encoder: build_volume of                *)
(* src/lib/build_vol.rs as a state machine over the output directory, the  *)
(* staging archive and the per-call locals.                                *)
(*                                                                         *)
(* Text (file names, archive entry names) is a sequence of one-character   *)
(* strings, so that Path::with_extension and format!() are computed        *)
(* character by character.                                                 *)
(***************************************************************************)
EXTENDS Integers, Sequences, FiniteSets, TLC

VARIABLES
    fs,       \* the output directory: file name -> directory entry
    disk,     \* file contents by inode: inode -> archive bytes written so far
    args,     \* BuildVolumeArgs of each caller
    pc,       \* position of each caller inside build_volume
    loc,      \* build_volume's local variables, per caller (fs0: the
              \* output directory as it was when the call started)
    result,   \* the value build_volume returned (or how it ended), per caller
    ops,      \* filesystem/archive writes the running (or last) call performed
    calls,    \* number of build_volume calls started, per caller
    prev      \* summary of the previous completed call, per caller

vars == <<fs, disk, args, pc, loc, result, ops, calls, prev>>

(***************************************************************************)
(* Text helpers.                                                           *)
(***************************************************************************)
DigitChars == <<"0", "1", "2", "3", "4", "5", "6", "7", "8", "9">>

IsDigit(c) == \E i \in 1..10 : DigitChars[i] = c

DigitVal(c) == (CHOOSE i \in 1..10 : DigitChars[i] = c) - 1

\* n.to_string(): decimal digits, no padding
RECURSIVE ToDec(_)
ToDec(n) == IF n < 10 THEN <<DigitChars[n + 1]>>
            ELSE ToDec(n \div 10) \o <<DigitChars[(n % 10) + 1]>>

Zeros(k) == [i \in 1..k |-> "0"]

\* format!("{:0w$}", n): zero-padded to at least w characters, never cut
PadZero(n, w) == LET s == ToDec(n)
                 IN  IF Len(s) >= w THEN s ELSE Zeros(w - Len(s)) \o s

\* index of the last '.' of a file name, 0 when it has none
LastDot(name) == LET dots == {i \in 1..Len(name) : name[i] = "."}
                 IN  IF dots = {} THEN 0
                     ELSE CHOOSE i \in dots : \A j \in dots : j <= i

\* Path::file_stem: the name up to its last '.', the whole name when the only
\* '.' is the leading one or there is none
FileStem(name) == IF LastDot(name) <= 1 THEN name
                  ELSE SubSeq(name, 1, LastDot(name) - 1)

NoExt == <<"/">>

\* Path::extension: what follows the last '.', NoExt when file_stem is the
\* whole name ('/' cannot occur in a file name)
Extension(name) == IF LastDot(name) <= 1 THEN NoExt
                   ELSE SubSeq(name, LastDot(name) + 1, Len(name))

\* Path::with_extension: the stem, then '.' and ext unless ext is empty
WithExtension(name, ext) ==
    IF ext = <<>> THEN FileStem(name) ELSE FileStem(name) \o <<".">> \o ext

ExtCbz == <<"c", "b", "z">>

ExtPartial == <<".", "c", "o", "m", "i", "c", "-", "e", "n", "c", "-",
                "p", "a", "r", "t", "i", "a", "l">>

ExtWebp == <<"w", "e", "b", "p">>

StrVolume == <<"V", "o", "l", "u", "m", "e", "-">>

StrVol == <<"V", "o", "l", "_">>

StrChapter == <<"_", "C", "h", "a", "p", "t", "e", "r", "_">>

StrPic == <<"_", "P", "i", "c", "_">>

StrPages == <<" ", "p", "a", "g", "e", "s", ")", ".", "c", "b", "z">>

Quoted(s) == <<"'">> \o s \o <<"'">>

(***************************************************************************)
(* Naming: the names build_volume derives from its arguments.  An argument *)
(* record a has the fields of BuildVolumeArgs, the options of its method   *)
(* and of EncodingOptions; a chapter is [num, name, files, order], files   *)
(* being the contents of the chapter's directory.  All paths are file      *)
(* names inside the one output directory.                                  *)
(***************************************************************************)
\* the name whose chapter range ends one past the last chapter
RangesBaseNameEndExclusive(a) ==
    IF ~a.append_chapters_range \/ a.chapters = <<>>
    THEN StrVolume \o PadZero(a.volume, a.vol_num_len)
    ELSE StrVolume \o PadZero(a.volume, a.vol_num_len)
         \o <<" ", "(", "c">> \o PadZero(a.start_chapter, a.chapter_num_len)
         \o <<"-", "c">>
         \o PadZero(a.start_chapter + Len(a.chapters), a.chapter_num_len)
         \o <<")">>

\* lines 61-79
RangesBaseName(a) ==
    IF ~a.append_chapters_range \/ a.chapters = <<>>
    THEN StrVolume \o PadZero(a.volume, a.vol_num_len)
    ELSE StrVolume \o PadZero(a.volume, a.vol_num_len)
         \o <<" ", "(", "c">> \o PadZero(a.start_chapter, a.chapter_num_len)
         \o <<"-", "c">>
         \o PadZero(a.start_chapter + Len(a.chapters) - 1, a.chapter_num_len)
         \o <<")">>

\* lines 82-86: the assertion of the Each method
EachAssertHolds(a) == a.method = "Each" => Len(a.chapters) = 1

\* lines 61-91: output_path_without_ext
OutputPathWithoutExt(a) ==
    CASE a.method = "Ranges" -> RangesBaseName(a)
      [] a.method = "Each"   -> a.chapters[1].name
      [] a.method = "Single" -> WithExtension(a.output, <<>>)

\* line 99: the path the skip_existing check looks at
SkipCheckPath(base) == WithExtension(base, ExtCbz)

\* line 109
StagingPath(base) == WithExtension(base, ExtPartial)


\* a final path that is the same for every volume
CompletePathShared(a, base, counter) ==
    <<"o", "u", "t", ".">> \o ExtCbz

\* lines 397-409: complete_path, with the page count when asked for
CompletePath(a, base, counter) ==
    LET complete == WithExtension(base, ExtCbz)
    IN  IF a.append_pages_count
        THEN WithExtension(complete, <<>>)
             \o <<" ", "(">> \o ToDec(counter) \o StrPages
        ELSE complete

\* lines 134-148: display_name_individual (None for the other methods)
DisplayNameIndividual(a) ==
    LET name == a.chapters[1].name
    IN  IF a.display_full_names \/ Len(name) <= 50
        THEN Quoted(name)
        ELSE Quoted(SubSeq(name, 1, 50) \o <<".", ".", ".">>)

\* lines 151-163: volume_display_name
VolumeDisplayName(a, base) ==
    CASE a.method = "Ranges" -> PadZero(a.volume, a.vol_num_len)
      [] a.method = "Each"   -> Quoted(DisplayNameIndividual(a))
      [] a.method = "Single" -> Quoted(base)

\* lines 254-264: zip_dir_name of a chapter
ZipDirName(a, ch) ==
    IF a.method = "Each" THEN a.chapters[1].name
    ELSE StrVol \o PadZero(a.volume, a.vol_num_len)
         \o StrChapter \o PadZero(ch.num, a.chapter_num_len)

\* page numbers written without padding
PicNumLenOne(pics) == 1

\* line 279: pic_num_len
PicNumLen(pics) == Len(ToDec(Len(pics)))

\* lines 284-290: the extension of a page's entry
PageExt(a, file) == IF a.compress_webp THEN ExtWebp ELSE Extension(file)

\* lines 291-310: name_in_zip; page_nb counts from 0
NameInZip(a, base, ch, pics, page_nb, file) ==
    IF a.method = "Each"
    THEN VolumeDisplayName(a, base) \o StrPic
         \o PadZero(page_nb, PicNumLen(pics)) \o <<".">> \o PageExt(a, file)
    ELSE StrVol \o PadZero(a.volume, a.vol_num_len)
         \o StrChapter \o PadZero(ch.num, a.chapter_num_len) \o StrPic
         \o PadZero(page_nb, PicNumLen(pics)) \o <<".">> \o PageExt(a, file)

\* the page entry placed at the root of the archive, outside its chapter
PathInZipFlat(dir, name) == name

\* line 318: Path::new(zip_dir_name).join(name_in_zip)
PathInZip(dir, name) == dir \o <<"/">> \o name

\* line 350: Path::ends_with compares whole path components, so a file name
\* "ends with" child only when it is child
PathEndsWith(file, child) == file = child

\* line 350: whether the page is decoded and re-encoded
ShouldConvert(a, file) ==
    a.compress_webp /\ ~PathEndsWith(file, <<".">> \o ExtWebp)

(***************************************************************************)
(* The chapter directory scanner and the page comparators live in          *)
(* crate::lib::deter; build_volume only calls them (lines 187-248).        *)
(***************************************************************************)
AsciiOrder == <<" ", "'", "(", ")", "-", ".", "/",
                "0", "1", "2", "3", "4", "5", "6", "7", "8", "9",
                "C", "P", "V", "_",
                "a", "b", "c", "e", "g", "h", "i", "j", "l", "m", "n", "o",
                "p", "r", "s", "t", "u", "w", "x", "z">>

CharCode(c) == CHOOSE i \in 1..Len(AsciiOrder) : AsciiOrder[i] = c

Min(x, y) == IF x <= y THEN x ELSE y

\* -1, 0 or 1: byte-wise comparison of two texts
LexCmp(s, t) ==
    LET common == {k \in 0..Min(Len(s), Len(t)) :
                      \A i \in 1..k : s[i] = t[i]}
        k == CHOOSE x \in common : \A y \in common : y <= x
    IN  IF k = Len(s) /\ k = Len(t) THEN 0
        ELSE IF k = Len(s) THEN -1
        ELSE IF k = Len(t) THEN 1
        ELSE IF CharCode(s[k + 1]) < CharCode(t[k + 1]) THEN -1 ELSE 1

\* the maximal runs of digits and of non-digits of a text
RECURSIVE Runs(_)
Runs(s) ==
    IF s = <<>> THEN <<>>
    ELSE LET d == IsDigit(s[1])
             same == {k \in 1..Len(s) : \A i \in 1..k : IsDigit(s[i]) = d}
             k == CHOOSE x \in same : \A y \in same : y <= x
         IN  <<SubSeq(s, 1, k)>> \o Runs(SubSeq(s, k + 1, Len(s)))

\* numeric value of a run of digits
RECURSIVE NumVal(_)
NumVal(r) == IF r = <<>> THEN 0
             ELSE 10 * NumVal(SubSeq(r, 1, Len(r) - 1)) + DigitVal(r[Len(r)])

RunCmp(r, q) ==
    IF IsDigit(r[1]) /\ IsDigit(q[1])
    THEN IF NumVal(r) < NumVal(q) THEN -1
         ELSE IF NumVal(r) > NumVal(q) THEN 1 ELSE 0
    ELSE LexCmp(r, q)

RECURSIVE RunsCmp(_, _)
RunsCmp(rs, qs) ==
    IF rs = <<>> /\ qs = <<>> THEN 0
    ELSE IF rs = <<>> THEN -1
    ELSE IF qs = <<>> THEN 1
    ELSE IF RunCmp(rs[1], qs[1]) # 0 THEN RunCmp(rs[1], qs[1])
    ELSE RunsCmp(Tail(rs), Tail(qs))

\* deter::natural_paths_cmp, as section 4.1 of the specification states it
NaturalPathsCmp(s, t) == RunsCmp(Runs(s), Runs(t))

ImageExts == {<<"j", "p", "g">>, <<"p", "n", "g">>, ExtWebp}

ExtendedImageExts == ImageExts \cup {<<"t", "g", "a">>}

\* deter::has_image_ext, as section 4.2 states it
HasImageExt(file, extended) ==
    Extension(file) \in (IF extended THEN ExtendedImageExts ELSE ImageExts)

\* deter::readdir_files_recursive with the image filter: the accepted files
ReaddirFilesRecursive(ch, extended) ==
    {f \in ch.files : HasImageExt(f, extended)}

RECURSIVE SortedPics(_, _)
\* the files of a chapter in any order, as the scanner returns them
UnsortedPics(a, files) ==
    {q \in [1..Cardinality(files) -> files] :
        \A i, j \in 1..Cardinality(files) : i # j => q[i] # q[j]}

\* lines 244-248: the orders chapter_pics.sort() / sort_by() may leave
SortedPics(a, files) ==
    LET Cmp(s, t) == IF a.simple_sorting THEN LexCmp(s, t)
                     ELSE NaturalPathsCmp(s, t)
        least == {m \in files : \A f \in files : Cmp(m, f) <= 0}
    IN  IF files = {} THEN {<<>>}
        ELSE UNION {{<<m>> \o q : q \in SortedPics(a, files \ {m})} :
                    m \in least}

(***************************************************************************)
(* State of a call.                                                        *)
(***************************************************************************)
Procs == {1, 2}

NoIno == <<0, 0>>

NoSrc == [ch |-> 0, file |-> <<>>]

NoData == [src |-> NoSrc, enc |-> "none"]

\* the call a caller is running: files and archives it writes carry this tag
Tag(p) == <<p, calls[p]>>

NoResult == [kind |-> "none", err |-> "", path |-> <<>>]

Ok(path) == [kind |-> "ok", err |-> "", path |-> path]

Err(e, path) == [kind |-> "err", err |-> e, path |-> path]

\* assert_eq!/unwrap()/expect() failing: the call unwinds, nothing is returned
Panicked == [kind |-> "panic", err |-> "", path |-> <<>>]

NoLoc == [base |-> <<>>, staging |-> <<>>, complete |-> <<>>,
          display |-> <<>>, ci |-> 0, pics |-> <<>>, pi |-> 0,
          counter |-> 0, ino |-> NoIno, buffer |-> NoData, fs0 |-> <<>>]

NoPrev == [published |-> FALSE, overwrite |-> FALSE, final |-> <<>>,
           tag |-> NoIno, stale |-> FALSE]

\* an archive file as File::create leaves it: empty, owned by the call
EmptyArchive(tag) == [by |-> tag, entries |-> <<>>, finished |-> FALSE]

Put(f, k, v) == [x \in DOMAIN f \cup {k} |-> IF x = k THEN v ELSE f[x]]

Drop(f, k) == [x \in DOMAIN f \ {k} |-> f[x]]

\* Path::exists and Path::is_dir follow symbolic links
Exists(path) == path \in DOMAIN fs

IsDir(path) == Exists(path) /\ fs[path].kind \in {"dir", "dirlink"}

FileEntry(ino) == [kind |-> "file", ino |-> ino]

DirEntry == [kind |-> "dir", ino |-> NoIno]

\* a symbolic link to a directory: is_dir() holds and remove_file() unlinks it
DirLinkEntry == [kind |-> "dirlink", ino |-> NoIno]

\* CompressionMethod of lines 127-131
ZipMethod(a) == IF a.compress_losslessly THEN "Deflated" ELSE "Stored"

\* `return` / `?`: the call ends with r
Return(p, r) ==
    /\ pc' = [pc EXCEPT ![p] = "done"]
    /\ result' = [result EXCEPT ![p] = r]

Goto(p, label) ==
    /\ pc' = [pc EXCEPT ![p] = label]
    /\ UNCHANGED result

Did(p, op) == ops' = [ops EXCEPT ![p] = @ \cup {op}]

\* where the chapter loop (line 169) goes once chapter ci is done
AfterChapter(a, ci) == IF ci >= Len(a.chapters) THEN "finish" ELSE "chapter"

\* where the page loop (line 282) goes once page pi of chapter ci is done
AfterPage(a, ci, pics, pi) ==
    IF pi >= Len(pics) THEN AfterChapter(a, ci) ELSE "start_file"

(***************************************************************************)
(* build_volume, one action per step.  A step that performs I/O may fail   *)
(* for reasons outside the model (permissions, disk full, a broken image): *)
(* its failure branch is always enabled.                                   *)
(***************************************************************************)
\* what the caller remembers of the call that just ended
Summary(p) ==
    IF result[p].kind = "ok" /\ "rename" \in ops[p]
    THEN [published |-> TRUE, overwrite |-> args[p].overwrite,
          final |-> loc[p].complete, tag |-> Tag(p), stale |-> FALSE]
    ELSE [NoPrev EXCEPT !.stale = result[p].kind \in {"err", "panic"}
                                  /\ loc[p].ino # NoIno]

\* the caller invokes build_volume (again), with or without --overwrite
Call(p, maxCalls) ==
    /\ pc[p] \in {"idle", "done"}
    /\ calls[p] < maxCalls
    /\ \E ow \in BOOLEAN : args' = [args EXCEPT ![p].overwrite = ow]
    /\ calls' = [calls EXCEPT ![p] = @ + 1]
    /\ prev' = [prev EXCEPT ![p] = IF pc[p] = "done" THEN Summary(p) ELSE @]
    /\ pc' = [pc EXCEPT ![p] = "resolve"]
    /\ loc' = [loc EXCEPT ![p] = [NoLoc EXCEPT !.fs0 = fs]]
    /\ result' = [result EXCEPT ![p] = NoResult]
    /\ ops' = [ops EXCEPT ![p] = {}]
    /\ UNCHANGED <<fs, disk>>

\* name resolution whose assertion lets a list of several chapters through
ResolveFirstChapter(p) ==
    /\ pc[p] = "resolve"
    /\ IF args[p].method = "Each" /\ args[p].chapters = <<>>
       THEN /\ Return(p, Panicked)
            /\ UNCHANGED loc
       ELSE /\ loc' = [loc EXCEPT ![p].base = OutputPathWithoutExt(args[p])]
            /\ Goto(p, "skip_check")
    /\ UNCHANGED <<fs, disk, args, ops, calls, prev>>

\* lines 61-91
Resolve(p) ==
    /\ pc[p] = "resolve"
    /\ IF ~EachAssertHolds(args[p])
       THEN /\ Return(p, Panicked)
            /\ UNCHANGED loc
       ELSE /\ loc' = [loc EXCEPT ![p].base = OutputPathWithoutExt(args[p])]
            /\ Goto(p, "skip_check")
    /\ UNCHANGED <<fs, disk, args, ops, calls, prev>>

\* lines 95-106
SkipCheck(p) ==
    /\ pc[p] = "skip_check"
    /\ IF /\ args[p].method = "Each"
          /\ args[p].skip_existing
          /\ Exists(SkipCheckPath(loc[p].base))
       THEN Return(p, Ok(SkipCheckPath(loc[p].base)))
       ELSE Goto(p, "staging_check")
    /\ UNCHANGED <<fs, disk, args, loc, ops, calls, prev>>

\* the staging step without the collision check of lines 112-117
StagingCheckNoCollision(p) ==
    /\ pc[p] = "staging_check"
    /\ loc' = [loc EXCEPT ![p].staging = StagingPath(loc[p].base)]
    /\ Goto(p, "create")
    /\ UNCHANGED <<fs, disk, args, ops, calls, prev>>

\* lines 109-117
StagingCheck(p) ==
    /\ pc[p] = "staging_check"
    /\ loc' = [loc EXCEPT ![p].staging = StagingPath(loc[p].base)]
    /\ IF Exists(StagingPath(loc[p].base)) /\ ~args[p].overwrite
       THEN Return(p, Err("OutputVolumeFileAlreadyExists",
                          StagingPath(loc[p].base)))
       ELSE Goto(p, "create")
    /\ UNCHANGED <<fs, disk, args, ops, calls, prev>>

\* lines 120-166: File::create truncates an existing file, fails on a
\* directory; then the writer, the display names and the page counter
CreateStaging(p) ==
    LET a == args[p]
        staging == loc[p].staging
        ino == IF Exists(staging) THEN fs[staging].ino ELSE Tag(p)
    IN  /\ pc[p] = "create"
        /\ Did(p, "create")
        /\ \/ /\ Return(p, Err("FailedToCreateVolumeFile", staging))
              /\ UNCHANGED <<fs, disk, loc>>
           \/ /\ Exists(staging) => fs[staging].kind = "file"
              /\ fs' = Put(fs, staging, FileEntry(ino))
              /\ disk' = Put(disk, ino, EmptyArchive(Tag(p)))
              /\ loc' = [loc EXCEPT ![p].ino = ino,
                                    ![p].display =
                                        VolumeDisplayName(a, loc[p].base),
                                    ![p].counter = 0,
                                    ![p].ci = 1]
              /\ Goto(p, AfterChapter(a, 0))
        /\ UNCHANGED <<args, calls, prev>>

\* lines 169-248: list the chapter's image files and sort them
ScanChapter(p) ==
    LET a == args[p]
        ch == a.chapters[loc[p].ci]
    IN  /\ pc[p] = "chapter"
        /\ \/ /\ \E e \in {"FailedToListChapterDirectoryFiles",
                           "FoundItemWithInvalidName"} :
                     Return(p, Err(e, ch.name))
              /\ UNCHANGED loc
           \/ /\ \E q \in SortedPics(a, ReaddirFilesRecursive(ch,
                                        a.accept_extended_image_formats)) :
                     loc' = [loc EXCEPT ![p].pics = q, ![p].pi = 0]
              /\ Goto(p, "add_dir")
        /\ UNCHANGED <<fs, disk, args, ops, calls, prev>>

\* lines 253-279
AddDirectory(p) ==
    LET a == args[p]
        ch == a.chapters[loc[p].ci]
        dir == ZipDirName(a, ch)
        next == AfterPage(a, loc[p].ci, loc[p].pics, 0)
    IN  /\ pc[p] = "add_dir"
        /\ Did(p, "add_directory")
        /\ \/ /\ Return(p, Err("FailedToCreateChapterDirectoryInZip", dir))
              /\ UNCHANGED <<disk, loc>>
           \/ /\ disk' = [disk EXCEPT ![loc[p].ino].entries =
                    Append(@, [kind |-> "dir", path |-> dir,
                               method |-> ZipMethod(a), data |-> NoData])]
              /\ loc' = [loc EXCEPT
                    ![p].pi = IF next = "start_file" THEN 1 ELSE 0,
                    ![p].ci = IF next = "start_file" THEN @ ELSE @ + 1]
              /\ Goto(p, next)
        /\ UNCHANGED <<fs, args, calls, prev>>

\* lines 282-328: page_nb = pi - 1
StartFile(p) ==
    LET a == args[p]
        ch == a.chapters[loc[p].ci]
        file == loc[p].pics[loc[p].pi]
        path == PathInZip(ZipDirName(a, ch),
                          NameInZip(a, loc[p].base, ch, loc[p].pics,
                                    loc[p].pi - 1, file))
    IN  /\ pc[p] = "start_file"
        /\ Did(p, "start_file")
        /\ \/ /\ Return(p, Err("FailedToCreateImageFileInZip", path))
              /\ UNCHANGED disk
           \/ /\ disk' = [disk EXCEPT ![loc[p].ino].entries =
                    Append(@, [kind |-> "file", path |-> path,
                               method |-> ZipMethod(a), data |-> NoData])]
              /\ Goto(p, "open")
        /\ UNCHANGED <<fs, args, loc, calls, prev>>

\* lines 331-337
OpenImage(p) ==
    /\ pc[p] = "open"
    /\ \/ Return(p, Err("FailedToOpenImage", loc[p].pics[loc[p].pi]))
       \/ Goto(p, "read")
    /\ UNCHANGED <<fs, disk, args, loc, ops, calls, prev>>

\* lines 339-350
ReadImage(p) ==
    LET a == args[p]
        file == loc[p].pics[loc[p].pi]
    IN  /\ pc[p] = "read"
        /\ \/ /\ Return(p, Err("FailedToReadImage", file))
              /\ UNCHANGED loc
           \/ /\ loc' = [loc EXCEPT ![p].buffer =
                    [src |-> [ch |-> a.chapters[loc[p].ci].num,
                             file |-> file],
                     enc |-> "raw"]]
              /\ Goto(p, IF ShouldConvert(a, file) THEN "convert"
                         ELSE "write")
        /\ UNCHANGED <<fs, disk, args, ops, calls, prev>>

\* lines 351-370: decode, re-encode as WebP; Encoder::from_image(..).unwrap()
\* panics on a pixel layout the encoder does not take
Convert(p) ==
    /\ pc[p] = "convert"
    /\ \/ /\ Return(p, Err("FailedToConvertImageFileToZip",
                           loc[p].pics[loc[p].pi]))
          /\ UNCHANGED loc
       \/ /\ Return(p, Panicked)
          /\ UNCHANGED loc
       \/ /\ loc' = [loc EXCEPT ![p].buffer.enc = "webp"]
          /\ Goto(p, "write")
    /\ UNCHANGED <<fs, disk, args, ops, calls, prev>>

\* WritePage carrying on after a failed write_all (skip-and-continue): the
\* entry stays empty, the next page is started
WritePageSkippingErrors(p) ==
    LET a == args[p]
        next == AfterPage(a, loc[p].ci, loc[p].pics, loc[p].pi)
        n == Len(disk[loc[p].ino].entries)
    IN  /\ pc[p] = "write"
        /\ Did(p, "write_all")
        /\ \E written \in BOOLEAN :
              /\ disk' = [disk EXCEPT ![loc[p].ino].entries[n].data =
                              IF written THEN loc[p].buffer ELSE @]
              /\ loc' = [loc EXCEPT
                    ![p].buffer = NoData,
                    ![p].counter = IF written THEN @ + 1 ELSE @,
                    ![p].pi = IF next = "start_file" THEN @ + 1 ELSE 0,
                    ![p].ci = IF next = "start_file" THEN @ ELSE @ + 1]
              /\ Goto(p, next)
        /\ UNCHANGED <<fs, args, calls, prev>>

\* lines 372-386
WritePage(p) ==
    LET a == args[p]
        next == AfterPage(a, loc[p].ci, loc[p].pics, loc[p].pi)
        n == Len(disk[loc[p].ino].entries)
    IN  /\ pc[p] = "write"
        /\ Did(p, "write_all")
        /\ \/ /\ Return(p, Err("FailedToWriteImageFileToZip",
                               loc[p].pics[loc[p].pi]))
              /\ UNCHANGED <<disk, loc>>
           \/ /\ disk' = [disk EXCEPT ![loc[p].ino].entries[n].data =
                                          loc[p].buffer]
              /\ loc' = [loc EXCEPT
                    ![p].buffer = NoData,
                    ![p].counter = @ + 1,
                    ![p].pi = IF next = "start_file" THEN @ + 1 ELSE 0,
                    ![p].ci = IF next = "start_file" THEN @ ELSE @ + 1]
              /\ Goto(p, next)
        /\ UNCHANGED <<fs, args, calls, prev>>

\* Finish with the result of zip_writer.finish() dropped: publishing goes on
\* whether or not the archive was finished
FinishIgnoringError(p) ==
    /\ pc[p] = "finish"
    /\ Did(p, "finish")
    /\ \E closed \in BOOLEAN :
          disk' = [disk EXCEPT ![loc[p].ino].finished = closed]
    /\ Goto(p, "publish_check")
    /\ UNCHANGED <<fs, args, loc, calls, prev>>

\* lines 391-394
Finish(p) ==
    /\ pc[p] = "finish"
    /\ Did(p, "finish")
    /\ \/ /\ Return(p, Err("FailedToCloseZipArchive", <<>>))
          /\ UNCHANGED disk
       \/ /\ disk' = [disk EXCEPT ![loc[p].ino].finished = TRUE]
          /\ Goto(p, "publish_check")
    /\ UNCHANGED <<fs, args, loc, calls, prev>>

\* PublishCheck without the collision test of lines 412-425: the final path
\* is computed and the staging file renamed onto it whatever is there
PublishCheckNoCollision(p) ==
    /\ pc[p] = "publish_check"
    /\ loc' = [loc EXCEPT ![p].complete =
                  CompletePath(args[p], loc[p].base, loc[p].counter)]
    /\ Goto(p, "rename")
    /\ UNCHANGED <<fs, disk, args, ops, calls, prev>>


\* the publish check deleting the staging file when it refuses to publish
PublishCheckCleaningUp(p) ==
    LET a == args[p]
        complete == CompletePath(a, loc[p].base, loc[p].counter)
    IN  /\ pc[p] = "publish_check"
        /\ loc' = [loc EXCEPT ![p].complete = complete]
        /\ IF ~Exists(complete)
           THEN Goto(p, "rename") /\ UNCHANGED fs
           ELSE IF ~a.overwrite
           THEN /\ Return(p, Err("OutputVolumeFileAlreadyExists", complete))
                /\ fs' = Drop(fs, loc[p].staging)
           ELSE IF ~IsDir(complete)
           THEN /\ Return(p, Err("OutputVolumeFileIsADirectory", complete))
                /\ fs' = Drop(fs, loc[p].staging)
           ELSE Goto(p, "remove") /\ UNCHANGED fs
        /\ UNCHANGED <<disk, args, ops, calls, prev>>

\* lines 396-425
PublishCheck(p) ==
    LET a == args[p]
        complete == CompletePath(a, loc[p].base, loc[p].counter)
    IN  /\ pc[p] = "publish_check"
        /\ loc' = [loc EXCEPT ![p].complete = complete]
        /\ IF ~Exists(complete) THEN Goto(p, "rename")
           ELSE IF ~a.overwrite
           THEN Return(p, Err("OutputVolumeFileAlreadyExists", complete))
           ELSE IF ~IsDir(complete)
           THEN Return(p, Err("OutputVolumeFileIsADirectory", complete))
           ELSE Goto(p, "remove")
        /\ UNCHANGED <<fs, disk, args, ops, calls, prev>>

\* lines 427-433: remove_file cannot unlink a directory
RemoveFile(p) ==
    LET complete == loc[p].complete
    IN  /\ pc[p] = "remove"
        /\ Did(p, "remove_file")
        /\ \/ /\ Return(p, Err("FailedToOverwriteOutputVolumeFile",
                               complete))
              /\ UNCHANGED fs
           \/ /\ Exists(complete)
              /\ fs[complete].kind # "dir"
              /\ fs' = Drop(fs, complete)
              /\ Goto(p, "rename")
        /\ UNCHANGED <<disk, args, loc, calls, prev>>

\* Rename publishing by copy: the final path gets the archive, the staging
\* file stays
RenameByCopy(p) ==
    LET staging == loc[p].staging
        complete == loc[p].complete
    IN  /\ pc[p] = "rename"
        /\ Did(p, "rename")
        /\ \/ /\ Return(p, Err("FailedToRenameCompleteArchive", <<>>))
              /\ UNCHANGED fs
           \/ /\ Exists(staging)
              /\ Exists(complete) => fs[complete].kind # "dir"
              /\ fs' = Put(fs, complete, fs[staging])
              /\ Return(p, Ok(staging))
        /\ UNCHANGED <<disk, args, loc, calls, prev>>

\* lines 436-494: rename, report, return the staging path
Rename(p) ==
    LET staging == loc[p].staging
        complete == loc[p].complete
    IN  /\ pc[p] = "rename"
        /\ Did(p, "rename")
        /\ \/ /\ Return(p, Err("FailedToRenameCompleteArchive", <<>>))
              /\ UNCHANGED fs
           \/ /\ Exists(staging)
              /\ Exists(complete) => fs[complete].kind # "dir"
              /\ fs' = Put(Drop(fs, staging), complete, fs[staging])
              /\ Return(p, Ok(staging))
        /\ UNCHANGED <<disk, args, loc, calls, prev>>

Step(p) ==
    \/ Resolve(p)
    \/ SkipCheck(p)
    \/ StagingCheck(p)
    \/ CreateStaging(p)
    \/ ScanChapter(p)
    \/ AddDirectory(p)
    \/ StartFile(p)
    \/ OpenImage(p)
    \/ ReadImage(p)
    \/ Convert(p)
    \/ WritePage(p)
    \/ Finish(p)
    \/ PublishCheck(p)
    \/ RemoveFile(p)
    \/ Rename(p)

(***************************************************************************)
(* Inputs.  The bounds of the model and the arguments, chapter             *)
(* directories and output directories the specifications start from.       *)
(***************************************************************************)
MaxCalls == 2

MaxChapters == 2

MaxPages == 2

PageNames == << <<"1", "0", ".", "p", "n", "g">>,
                <<"9", ".", "w", "e", "b", "p">>,
                <<"1", ".", "j", "p", "g">>,
                <<"0", "0", "7", ".", "p", "n", "g">>,
                <<"7", ".", "p", "n", "g">> >>

PageName(i) == IF i <= Len(PageNames) THEN PageNames[i]
               ELSE <<"p">> \o ToDec(i) \o <<".", "p", "n", "g">>

NotesFile == <<"n", ".", "t", "x", "t">>

\* a chapter directory holding k image files and one file that is no image
DirFiles(k) == {PageName(i) : i \in 1..k} \cup {NotesFile}

ChapterName == <<"c", "1">>

DottedName == <<"c", "1", ".", "5">>

SingleOutput == <<"o", ".", "c", "b", "z">>

\* the chapter list of a volume: chapter i has number start + i - 1 and
\* shape[i] image files
Chapters(start, name, shape) ==
    [i \in 1..Len(shape) |->
        [num |-> start + i - 1, name |-> name, files |-> DirFiles(shape[i])]]

\* every list of at most c page counts, each at most n
RECURSIVE Shapes(_, _)
Shapes(c, n) ==
    IF c = 0 THEN {<<>>}
    ELSE Shapes(c - 1, n)
         \cup {Append(sh, k) : sh \in {x \in Shapes(c - 1, n) : Len(x) = c - 1},
                               k \in 0..n}

BaseArgs ==
    [method |-> "Ranges", append_chapters_range |-> FALSE,
     skip_existing |-> FALSE, display_full_names |-> FALSE,
     overwrite |-> FALSE, compress_losslessly |-> FALSE,
     compress_webp |-> TRUE, accept_extended_image_formats |-> FALSE,
     simple_sorting |-> FALSE, append_pages_count |-> FALSE,
     output |-> <<>>, volume |-> 1, vol_num_len |-> 2,
     chapter_num_len |-> 2, start_chapter |-> 1, chapters |-> <<>>]

RangesArgs(shape, range, count) ==
    [BaseArgs EXCEPT !.method = "Ranges", !.append_chapters_range = range,
                     !.append_pages_count = count,
                     !.chapters = Chapters(1, ChapterName, shape)]

EachArgs(name, shape, skip, count) ==
    [BaseArgs EXCEPT !.method = "Each", !.skip_existing = skip,
                     !.append_pages_count = count,
                     !.chapters = Chapters(1, name, shape)]

SingleArgs(shape, count) ==
    [BaseArgs EXCEPT !.method = "Single", !.output = SingleOutput,
                     !.append_pages_count = count,
                     !.chapters = Chapters(1, ChapterName, shape)]

\* the jobs of the publication protocol: every method, with and without
\* skip_existing and the page count, plain and dotted chapter names
\* (skip_existing conflicts with append_pages_count, lines 96-97; chapters are
\* numbered from 1, so the end chapter of line 485 never underflows)
ProtocolJobs ==
    {RangesArgs(shape, FALSE, count) :
        shape \in {<<>>, <<MaxPages, 1>>}, count \in BOOLEAN}
    \cup {EachArgs(name, <<1>>, f[1], f[2]) :
        name \in {ChapterName, DottedName},
        f \in {<<FALSE, FALSE>>, <<TRUE, FALSE>>, <<FALSE, TRUE>>}}
    \cup {EachArgs(ChapterName, shape, skip, FALSE) :
        shape \in {<<>>, <<1, 1>>}, skip \in BOOLEAN}
    \cup {SingleArgs(<<1>>, count) : count \in BOOLEAN}

RECURSIVE SumPages(_, _)
SumPages(a, n) ==
    IF n = 0 THEN 0
    ELSE SumPages(a, n - 1)
         + Cardinality(ReaddirFilesRecursive(a.chapters[n],
                          a.accept_extended_image_formats))

\* the accepted image files of all the chapters of a volume
TotalPages(a) == SumPages(a, Len(a.chapters))

\* the paths of the output directory a build of job a may look at: its
\* staging path, its final path, and its base name followed by ".cbz"
StagingOf(a) == StagingPath(OutputPathWithoutExt(a))

FinalOf(a) == CompletePath(a, OutputPathWithoutExt(a), TotalPages(a))

VerbatimOf(a) == OutputPathWithoutExt(a) \o <<".">> \o ExtCbz

\* an output directory before the first call: each of the job's paths is
\* absent, a file (a stale staging file, an earlier archive) or a directory
InitialDirs(a) ==
    IF a.method = "Each" /\ a.chapters = <<>> THEN {<<>>}
    ELSE LET paths == {StagingOf(a), FinalOf(a), VerbatimOf(a)}
             KindsOf(x) ==
                 IF x = StagingOf(a) THEN {"none", "file", "dir"}
                 ELSE IF x = FinalOf(a)
                 THEN {"none", "file", "dir", "dirlink"}
                 ELSE {"none", "file"}
             InoOf(x) == IF x = StagingOf(a) THEN <<0, 1>>
                         ELSE IF x = FinalOf(a) THEN <<0, 2>> ELSE <<0, 3>>
             Entry(x, k) == CASE k = "file" -> FileEntry(InoOf(x))
                              [] k = "dir" -> DirEntry
                              [] k = "dirlink" -> DirLinkEntry
         IN  {[x \in {y \in paths : ks[y] # "none"} |-> Entry(x, ks[x])] :
              ks \in {k \in [paths -> {"none", "file", "dir", "dirlink"}] :
                         \A x \in paths : k[x] \in KindsOf(x)}}

\* the contents of the files the output directory starts with: a stale
\* staging file is an unfinished archive, any other file a finished one
InitialDisk(dir) ==
    [ino \in {dir[x].ino : x \in {y \in DOMAIN dir : dir[y].kind = "file"}} |->
        [by |-> NoIno, entries |-> <<>>, finished |-> ino[2] % 3 # 1]]

InitWith(jobs1, jobs2, dirs) ==
    /\ args \in [Procs -> jobs1 \cup jobs2]
    /\ args[1] \in jobs1
    /\ args[2] \in jobs2
    /\ fs \in dirs
    /\ disk = InitialDisk(fs)
    /\ pc = [p \in Procs |-> "idle"]
    /\ loc = [p \in Procs |-> NoLoc]
    /\ result = [p \in Procs |-> NoResult]
    /\ ops = [p \in Procs |-> {}]
    /\ calls = [p \in Procs |-> 0]
    /\ prev = [p \in Procs |-> NoPrev]

(***************************************************************************)
(* Spec: one caller building, and building again, the same volume.         *)
(***************************************************************************)
Init ==
    \E a \in ProtocolJobs :
        InitWith({a}, {BaseArgs}, InitialDirs(a))

Next == Call(1, MaxCalls) \/ Step(1)

Spec == Init /\ [][Next]_vars

(***************************************************************************)
(* Vocabulary of the properties.                                           *)
(***************************************************************************)
\* the errors of a failed I/O operation or of unusable input data
IoErrors ==
    {"FailedToCreateVolumeFile", "FailedToListChapterDirectoryFiles",
     "FoundItemWithInvalidName", "FailedToCreateChapterDirectoryInZip",
     "FailedToCreateImageFileInZip", "FailedToOpenImage",
     "FailedToReadImage", "FailedToConvertImageFileToZip",
     "FailedToWriteImageFileToZip", "FailedToCloseZipArchive",
     "FailedToOverwriteOutputVolumeFile", "FailedToRenameCompleteArchive"}

\* the call ended because the environment failed it (or it panicked)
EnvFailure(r) == r.kind = "panic" \/ (r.kind = "err" /\ r.err \in IoErrors)

Returned(p) == pc[p] = "done"

\* path holds the finished archive written by call tag
PublishedBy(path, tag) ==
    /\ Exists(path)
    /\ fs[path].kind = "file"
    /\ disk[fs[path].ino].by = tag
    /\ disk[fs[path].ino].finished

\* neither the staging nor the final path of the job existed when the
\* running (or last) call of p started
CleanStart(p) ==
    /\ EachAssertHolds(args[p])
    /\ StagingOf(args[p]) \notin DOMAIN loc[p].fs0
    /\ FinalOf(args[p]) \notin DOMAIN loc[p].fs0

\* the call of p that ended is the second of two consecutive builds of the
\* same final path, both without overwrite, the first of which published
SecondWithoutOverwrite(p) ==
    /\ Returned(p)
    /\ prev[p].published
    /\ ~prev[p].overwrite
    /\ ~args[p].overwrite
    /\ FinalOf(args[p]) = prev[p].final

\* from a clean start and without overwrite a build fails only when the
\* environment fails it: it returns Ok and publishes the final file
FirstBuildPublishes(p) ==
    (Returned(p) /\ CleanStart(p) /\ ~args[p].overwrite
        /\ ~EnvFailure(result[p]))
    => /\ result[p] = Ok(StagingOf(args[p]))
       /\ PublishedBy(FinalOf(args[p]), Tag(p))

\* the early exit of lines 95-106 applies to the job
SkipsExisting(a) == a.method = "Each" /\ a.skip_existing

(***************************************************************************)
(* C1 (as stated).  Two consecutive builds of the same final path, both    *)
(* without overwrite, from a state with neither staging nor final path:    *)
(* the first publishes, the second fails with                              *)
(* OutputVolumeFileAlreadyExists and the published file stays in place.    *)
(***************************************************************************)
C1_SecondBuildAlwaysFails ==
    /\ FirstBuildPublishes(1)
    /\ (SecondWithoutOverwrite(1) /\ ~EnvFailure(result[1]))
       => /\ result[1] = Err("OutputVolumeFileAlreadyExists", prev[1].final)
          /\ PublishedBy(prev[1].final, prev[1].tag)

(***************************************************************************)
(* C1 (amended).  As C1, except that with the Each method and              *)
(* skip_existing the second build takes the early exit: it returns Ok with *)
(* the existing final path and writes nothing.  In both cases the file the *)
(* first build published stays in place.                                   *)
(***************************************************************************)
C1_SecondBuildFailsUnlessSkipped ==
    /\ FirstBuildPublishes(1)
    /\ (SecondWithoutOverwrite(1) /\ ~EnvFailure(result[1]))
       => /\ IF SkipsExisting(args[1])
             THEN result[1] = Ok(prev[1].final) /\ ops[1] = {}
             ELSE result[1] = Err("OutputVolumeFileAlreadyExists",
                                  prev[1].final)
          /\ PublishedBy(prev[1].final, prev[1].tag)

C1_Witness ==
    /\ SecondWithoutOverwrite(1)
    /\ CleanStart(1) = FALSE
    /\ calls[1] = 2
    /\ result[1] = Err("OutputVolumeFileAlreadyExists", prev[1].final)
    /\ "finish" \in ops[1]
    /\ PublishedBy(prev[1].final, prev[1].tag)

\* the call of p reached the publishing step: the archive was finished and
\* the final path computed
ReachedPublish(p) == Returned(p) /\ loc[p].complete # <<>>

\* what the final path of the call of p was when the call started (in Spec
\* nothing else touches it before the publishing step)
FinalKindAtStart(p) ==
    IF loc[p].complete \in DOMAIN loc[p].fs0
    THEN loc[p].fs0[loc[p].complete].kind ELSE "none"

(***************************************************************************)
(* C2.  With overwrite enabled, the archive finished and the final path an *)
(* existing regular file, publishing deletes that file and renames the     *)
(* staging file onto the final path: the build succeeds and the final path *)
(* holds the archive this build wrote.                                     *)
(***************************************************************************)
C2_OverwriteReplacesFile ==
    (ReachedPublish(1) /\ args[1].overwrite /\ FinalKindAtStart(1) = "file"
        /\ ~EnvFailure(result[1]))
    => /\ result[1].kind = "ok"
       /\ {"remove_file", "rename"} \subseteq ops[1]
       /\ PublishedBy(loc[1].complete, Tag(1))

(***************************************************************************)
(* C3.  With overwrite enabled and the final path an existing directory,   *)
(* publishing fails with OutputVolumeFileIsADirectory without attempting   *)
(* a deletion or a rename; that error is returned only when the final path *)
(* is a directory.                                                         *)
(***************************************************************************)
C3_DirectoryIsRefused ==
    (ReachedPublish(1) /\ args[1].overwrite)
    => /\ FinalKindAtStart(1) = "dir"
          => /\ result[1] = Err("OutputVolumeFileIsADirectory",
                                loc[1].complete)
             /\ ops[1] \cap {"remove_file", "rename"} = {}
       /\ result[1].err = "OutputVolumeFileIsADirectory"
          => FinalKindAtStart(1) \in {"dir", "dirlink"}

(***************************************************************************)
(* C4.  Each with skip_existing: if <base name>.cbz exists when            *)
(* build_volume is called, the call returns Ok with that path and writes   *)
(* nothing (no create, no archive entry, no delete, no rename); no other   *)
(* successful call writes no archive.                                      *)
(***************************************************************************)
C4_SkipExistingWritesNothing ==
    /\ (Returned(1) /\ SkipsExisting(args[1]) /\ EachAssertHolds(args[1])
           /\ VerbatimOf(args[1]) \in DOMAIN loc[1].fs0)
       => /\ result[1] = Ok(VerbatimOf(args[1]))
          /\ ops[1] = {}
          /\ fs = loc[1].fs0
    /\ (Returned(1) /\ result[1].kind = "ok" /\ "finish" \notin ops[1])
       => /\ SkipsExisting(args[1])
          /\ result[1].path \in DOMAIN loc[1].fs0
          /\ ops[1] = {}

\* the accepted image files of chapter i of job a
PageCount(a, i) ==
    Cardinality(ReaddirFilesRecursive(a.chapters[i],
                                      a.accept_extended_image_formats))

\* archive entries of the chapters before chapter ci: a directory and the
\* pages of each
RECURSIVE EntriesBefore(_, _)
EntriesBefore(a, ci) ==
    IF ci <= 1 THEN 0
    ELSE EntriesBefore(a, ci - 1) + 1 + PageCount(a, ci - 1)

\* the archive the call of p writes
Archive(p) == disk[loc[p].ino]

WrittenPages(ar) ==
    Cardinality({i \in 1..Len(ar.entries) :
                    ar.entries[i].kind = "file"
                    /\ ar.entries[i].data # NoData})

\* ar holds a directory for every chapter of a and every accepted page,
\* each page with its bytes, and was finished
CompleteArchive(a, ar) ==
    /\ ar.finished
    /\ Len(ar.entries) = Len(a.chapters) + TotalPages(a)
    /\ Cardinality({i \in 1..Len(ar.entries) : ar.entries[i].kind = "dir"})
          = Len(a.chapters)
    /\ WrittenPages(ar) = TotalPages(a)

Failed(p) == Returned(p) /\ result[p].kind \in {"err", "panic"}

\* the call of p returned Ok after renaming its staging file
Published(p) ==
    Returned(p) /\ result[p].kind = "ok" /\ "rename" \in ops[p]

ChapterErrors == {"FailedToListChapterDirectoryFiles",
                  "FoundItemWithInvalidName",
                  "FailedToCreateChapterDirectoryInZip"}

PageErrors == {"FailedToOpenImage", "FailedToReadImage",
               "FailedToConvertImageFileToZip",
               "FailedToWriteImageFileToZip"}

\* a failed call stopped at the failing step: the archive holds what was
\* written before it, nothing of a later page or chapter
StoppedAtFailure(p) ==
    LET a == args[p]
        e == result[p].err
        before == EntriesBefore(a, loc[p].ci)
    IN  /\ (loc[p].ino # NoIno)
           => WrittenPages(Archive(p)) = loc[p].counter
        /\ e \in ChapterErrors => Len(Archive(p).entries) = before
        /\ e = "FailedToCreateImageFileInZip"
           => Len(Archive(p).entries) = before + loc[p].pi
        /\ e \in PageErrors
           => /\ Len(Archive(p).entries) = before + 1 + loc[p].pi
              /\ Archive(p).entries[before + 1 + loc[p].pi].data = NoData
        /\ e \in ChapterErrors \cup PageErrors
                 \cup {"FailedToCreateImageFileInZip",
                       "FailedToCloseZipArchive"}
           => ~Archive(p).finished

\* no file written by the call of p lies anywhere but at its staging path
NothingPublished(p) ==
    \A x \in DOMAIN fs :
        (fs[x].kind = "file" /\ disk[fs[x].ino].by = Tag(p))
        => x = loc[p].staging

(***************************************************************************)
(* C5.  The volume build is all-or-nothing: a failing step (staging        *)
(* creation, listing, directory entry, page entry, open/read, transcode,   *)
(* write, finish, publish) ends the call at once with a failed result; no  *)
(* later page or chapter is processed, the staging file is not renamed     *)
(* onto the final path, and nothing more happens until the next call.  A   *)
(* call that publishes has written every chapter and every page.           *)
(***************************************************************************)
C5_AllOrNothing ==
    /\ [](Failed(1) => (StoppedAtFailure(1) /\ NothingPublished(1)))
    /\ [](Published(1) => /\ CompleteArchive(args[1], Archive(1))
                          /\ PublishedBy(loc[1].complete, Tag(1)))
    /\ [][Failed(1) => (calls'[1] = calls[1] + 1 /\ UNCHANGED <<fs, disk>>)]_vars

\* a page failed to be written while a page and a chapter were still to come
C5_Witness ==
    /\ Failed(1)
    /\ result[1].err = "FailedToWriteImageFileToZip"
    /\ loc[1].pi < Len(loc[1].pics)
    /\ loc[1].ci < Len(args[1].chapters)
    /\ Exists(loc[1].staging)

\* the paths of final artifacts: the files with the archive extension
IsArchivePath(x) == Extension(x) = ExtCbz

\* the file at x is whole: finished and, when a build of the job wrote it,
\* holding every chapter and page
WholeArchiveAt(x) ==
    LET ar == disk[fs[x].ino]
    IN  /\ ar.finished
        /\ ar.by # NoIno => CompleteArchive(args[ar.by[1]], ar)

(***************************************************************************)
(* C6.  In every reachable state (a build running, done, failed or         *)
(* stopped between two steps) no final path holds a partially written      *)
(* archive: archive bytes are written only to a file at the staging path,  *)
(* and a file appears at a final path only by the rename of a staging file *)
(* whose archive has been finished.                                        *)
(***************************************************************************)
C6_FinalNeverPartial ==
    /\ [](\A x \in DOMAIN fs :
             (fs[x].kind = "file" /\ IsArchivePath(x)) => WholeArchiveAt(x))
    /\ [][disk' # disk =>
             \A x \in DOMAIN fs' :
                 (fs'[x].kind = "file" /\ fs'[x].ino = loc'[1].ino)
                 => (x = StagingOf(args[1]) /\ ~IsArchivePath(x))]_vars
    /\ [][\A x \in DOMAIN fs' :
             (IsArchivePath(x) /\ (x \notin DOMAIN fs \/ fs'[x] # fs[x]))
             => /\ pc[1] = "rename"
                /\ Exists(loc[1].staging)
                /\ fs'[x] = fs[loc[1].staging]
                /\ disk[fs[loc[1].staging].ino].finished
                /\ loc[1].staging \notin DOMAIN fs']_vars

\* a rebuild is half way through its archive while the final path holds the
\* archive of the build before
C6_Witness ==
    /\ pc[1] = "write"
    /\ loc[1].counter >= 1
    /\ prev[1].published
    /\ PublishedBy(prev[1].final, prev[1].tag)
    /\ Exists(loc[1].staging)
    /\ ~Archive(1).finished

(***************************************************************************)
(* C7 (as stated).  Whenever build_volume returns success, no file exists  *)
(* at the staging path of the volume, for every method and every initial   *)
(* output directory.                                                       *)
(***************************************************************************)
C7_NoStagingOnSuccess ==
    (Returned(1) /\ result[1].kind = "ok") => ~Exists(StagingOf(args[1]))

(***************************************************************************)
(* C7 (amended).  Whenever build_volume returns success after publishing,  *)
(* no file exists at the staging path, for every method and every initial  *)
(* output directory; a call that succeeds by the skip_existing early exit  *)
(* leaves the output directory as it found it, a stale staging file        *)
(* included.                                                               *)
(***************************************************************************)
C7_NoStagingAfterPublish ==
    /\ Published(1) => ~Exists(StagingOf(args[1]))
    /\ (Returned(1) /\ result[1].kind = "ok" /\ ~Published(1))
       => /\ SkipsExisting(args[1])
          /\ fs = loc[1].fs0
          /\ ops[1] = {}

\* a build with overwrite found a stale staging file, reused it and published
C7_Witness ==
    /\ Published(1)
    /\ StagingOf(args[1]) \in DOMAIN loc[1].fs0
    /\ ~Exists(StagingOf(args[1]))
    /\ PublishedBy(loc[1].complete, Tag(1))

(***************************************************************************)
(* SpecPages: one build of a volume, over every chapter list within the    *)
(* bounds, with and without WebP transcoding, page count and simple        *)
(* sorting.  The output directory is empty or holds a link to a directory  *)
(* at the final path.                                                      *)
(***************************************************************************)
PageJobs ==
    {[RangesArgs(shape, FALSE, f[1]) EXCEPT !.compress_webp = f[2],
                                            !.simple_sorting = f[3]] :
        shape \in Shapes(MaxChapters, MaxPages),
        f \in BOOLEAN \X BOOLEAN \X BOOLEAN}
    \cup {[EachArgs(name, <<k>>, FALSE, f[1]) EXCEPT !.compress_webp = f[2]] :
        name \in {ChapterName, DottedName}, k \in 0..MaxPages,
        f \in BOOLEAN \X BOOLEAN}
    \cup {[SingleArgs(<<k>>, f[1]) EXCEPT !.compress_webp = f[2]] :
        k \in 0..MaxPages, f \in BOOLEAN \X BOOLEAN}

PageDirs(a) ==
    {d \in InitialDirs(a) :
        \A x \in DOMAIN d : x = FinalOf(a) /\ d[x].kind = "dirlink"}

InitPages ==
    \E a \in PageJobs : InitWith({a}, {BaseArgs}, PageDirs(a))

NextPages == Call(1, 1) \/ Step(1)

SpecPages == InitPages /\ [][NextPages]_vars

(***************************************************************************)
(* C8.  With append_pages_count a successful build of N chapters publishes *)
(* '<base name> (M pages).cbz', M being the sum over the chapters of the   *)
(* accepted image files, and equal to the page counter (0 at the start,    *)
(* one more per page written, never reset).                                *)
(***************************************************************************)
C8_PageCountInName ==
    (Published(1) /\ args[1].append_pages_count)
    => /\ loc[1].counter = TotalPages(args[1])
       /\ loc[1].counter = WrittenPages(Archive(1))
       /\ loc[1].complete =
             OutputPathWithoutExt(args[1]) \o <<" ", "(">>
             \o ToDec(TotalPages(args[1])) \o StrPages
       /\ PublishedBy(loc[1].complete, Tag(1))

\* p is a text that starts with d, then '/'
IsUnder(path, d) ==
    /\ Len(path) > Len(d) + 1
    /\ SubSeq(path, 1, Len(d)) = d
    /\ path[Len(d) + 1] = "/"

\* the index of the directory entry added for the chapter entry i belongs
\* to: the last directory entry before it
DirOf(ar, i) ==
    LET before == {j \in 1..(i - 1) : ar.entries[j].kind = "dir"}
    IN  IF before = {} THEN 0
        ELSE CHOOSE j \in before : \A k \in before : k <= j

(***************************************************************************)
(* C9.  In the archive of a successful build the number of page entries is *)
(* the page counter reported, and every page entry lies under exactly one  *)
(* chapter-directory entry, the one added for its chapter; for all three   *)
(* methods.                                                                *)
(***************************************************************************)
C9_PagesUnderTheirChapter ==
    Published(1) =>
        LET ar == Archive(1)
            pages == {i \in 1..Len(ar.entries) : ar.entries[i].kind = "file"}
            dirs == {i \in 1..Len(ar.entries) : ar.entries[i].kind = "dir"}
        IN  /\ Cardinality(pages) = loc[1].counter
            /\ \A i \in pages :
                  /\ {j \in dirs : IsUnder(ar.entries[i].path,
                                           ar.entries[j].path)}
                        = {DirOf(ar, i)}
                  /\ \E c \in 1..Len(args[1].chapters) :
                        /\ args[1].chapters[c].num = ar.entries[i].data.src.ch
                        /\ ar.entries[DirOf(ar, i)].path
                              = ZipDirName(args[1], args[1].chapters[c])

\* a published volume of two chapters or more, the last two with pages
C9_Witness ==
    /\ Published(1)
    /\ Len(args[1].chapters) >= 2
    /\ \A c \in {Len(args[1].chapters) - 1, Len(args[1].chapters)} :
          PageCount(args[1], c) >= 1
    /\ loc[1].counter = TotalPages(args[1])

(***************************************************************************)
(* SpecNaming: the name resolution of build_volume for the Ranges method,  *)
(* applied to volumes, chapter numbers, chapter counts and widths drawn    *)
(* from small sets, every other argument varying as well.                  *)
(***************************************************************************)
MaxVolume == 12

MaxStart == 98

MaxNumLen == 3

NameChapters == 5

Volumes == {0, 3, MaxVolume}

Starts == {0, 1, 10, MaxStart}

NumLens == 0..MaxNumLen

NamingArgs(volume, vl, start, n, cl, range, name, count) ==
    [BaseArgs EXCEPT !.method = "Ranges", !.volume = volume,
                     !.vol_num_len = vl, !.start_chapter = start,
                     !.chapter_num_len = cl, !.append_chapters_range = range,
                     !.append_pages_count = count,
                     !.chapters = Chapters(start, name, [i \in 1..n |-> 0])]

NamingJobs ==
    {NamingArgs(volume, vl, start, n, cl, f[1], name, f[2]) :
        volume \in Volumes, vl \in NumLens, start \in Starts,
        n \in 0..NameChapters, cl \in NumLens,
        f \in BOOLEAN \X BOOLEAN, name \in {ChapterName, DottedName}}

InitNaming ==
    \E a \in NamingJobs : InitWith({a}, {BaseArgs}, {<<>>})

NextNaming == Call(1, 1) \/ Resolve(1)

SpecNaming == InitNaming /\ [][NextNaming]_vars

\* t is the decimal writing of n, zero-padded to w characters (and longer
\* when n has more digits than w)
IsPadded(t, n, w) ==
    /\ Len(t) = IF Len(ToDec(n)) > w THEN Len(ToDec(n)) ELSE w
    /\ \A i \in 1..Len(t) : IsDigit(t[i])
    /\ NumVal(t) = n

\* b is 'Volume-<v>', v the padded volume
IsPlainName(b, a) ==
    /\ Len(b) > Len(StrVolume)
    /\ SubSeq(b, 1, Len(StrVolume)) = StrVolume
    /\ IsPadded(SubSeq(b, Len(StrVolume) + 1, Len(b)), a.volume, a.vol_num_len)

\* b is 'Volume-<v> (c<s>-c<e>)', v the padded volume, s and e the padded
\* first and last chapter numbers
IsRangeName(b, a) ==
    \E i, j \in 1..Len(b) :
        /\ IsPlainName(SubSeq(b, 1, i), a)
        /\ SubSeq(b, i + 1, i + 3) = <<" ", "(", "c">>
        /\ IsPadded(SubSeq(b, i + 4, j), a.start_chapter, a.chapter_num_len)
        /\ SubSeq(b, j + 1, j + 2) = <<"-", "c">>
        /\ IsPadded(SubSeq(b, j + 3, Len(b) - 1),
                    a.start_chapter + Len(a.chapters) - 1, a.chapter_num_len)
        /\ j + 3 <= Len(b) - 1
        /\ b[Len(b)] = ")"

\* the arguments that agree with a on the volume, the first chapter number,
\* the chapter count, the two widths and append_chapters_range
SameNamingInputs(a) ==
    {[a EXCEPT !.overwrite = f[1], !.append_pages_count = f[2],
               !.display_full_names = f[3], !.output = out,
               !.chapters = Chapters(a.start_chapter, name,
                                     [i \in 1..Len(a.chapters) |-> k])] :
        f \in BOOLEAN \X BOOLEAN \X BOOLEAN,
        out \in {<<>>, SingleOutput},
        name \in {ChapterName, DottedName}, k \in 0..1}

ExampleName ==
    <<"V", "o", "l", "u", "m", "e", "-", "0", "3", " ", "(", "c", "0", "1",
      "0", "-", "c", "0", "1", "4", ")">>

IsExample(a) ==
    /\ a.method = "Ranges" /\ a.append_chapters_range
    /\ a.volume = 3 /\ a.vol_num_len = 2
    /\ a.start_chapter = 10 /\ Len(a.chapters) = 5 /\ a.chapter_num_len = 3

Resolved(p) == pc[p] \notin {"idle", "resolve"} /\ result[p] # Panicked

(***************************************************************************)
(* C10.  For the Ranges method the base name is 'Volume-<volume padded to  *)
(* vol_num_len>' when append_chapters_range is off or there is no chapter, *)
(* and otherwise 'Volume-<padded volume> (c<start>-c<end>)', start being   *)
(* start_chapter and end start_chapter + chapter count - 1, both padded to *)
(* chapter_num_len; volume 3, start_chapter 10, 5 chapters and widths 2    *)
(* and 3 give 'Volume-03 (c010-c014)'; no other input changes the name.    *)
(***************************************************************************)
C10_RangesBaseName ==
    (Resolved(1) /\ args[1].method = "Ranges") =>
        LET a == args[1]
            b == loc[1].base
        IN  /\ IF ~a.append_chapters_range \/ a.chapters = <<>>
               THEN IsPlainName(b, a)
               ELSE IsRangeName(b, a)
            /\ IsExample(a) => b = ExampleName
            /\ \A o \in SameNamingInputs(a) : OutputPathWithoutExt(o) = b

\* the example volume (3, chapters 10 to 14, widths 2 and 3) has been resolved
C10_Witness ==
    /\ Resolved(1)
    /\ IsExample(args[1])
    /\ loc[1].base = ExampleName

(***************************************************************************)
(* C11.  For the Each method the chapter name is the base name, verbatim:  *)
(* whatever the name (dots included), the staging file is the name         *)
(* followed by the staging extension and the final file the name followed  *)
(* by '.cbz', no character of the name removed or replaced.                *)
(***************************************************************************)
C11_EachNameVerbatim ==
    (args[1].method = "Each" /\ "create" \in ops[1]) =>
        LET name == args[1].chapters[1].name
        IN  /\ loc[1].staging = name \o <<".">> \o ExtPartial
            /\ (Published(1) /\ ~args[1].append_pages_count)
               => /\ loc[1].complete = name \o <<".">> \o ExtCbz
                  /\ PublishedBy(name \o <<".">> \o ExtCbz, Tag(1))

(***************************************************************************)
(* C12.  Whenever build_volume returns success with a path, a file exists  *)
(* at the returned path at the moment of return: the staging file's path   *)
(* after publishing, the pre-existing final file on the skip-existing      *)
(* path.                                                                   *)
(***************************************************************************)
C12_ReturnedPathExists ==
    (Returned(1) /\ result[1].kind = "ok") =>
        /\ Exists(result[1].path)
        /\ fs[result[1].path].kind = "file"
        /\ Published(1) => result[1].path = loc[1].staging
        /\ ~Published(1) => result[1].path = SkipCheckPath(loc[1].base)

\* a job of the Each method whose chapter list is not of length 1
BadEachJob(a) == a.method = "Each" /\ Len(a.chapters) # 1

(***************************************************************************)
(* C13.  For the Each method a chapter list of length 0 or >= 2 is a fatal *)
(* assertion failure during name resolution, before any existence check    *)
(* and any filesystem write: no staging file is created, nothing is        *)
(* deleted or renamed, no Ok/Err result is returned.                       *)
(***************************************************************************)
C13_EachAssertionIsFatal ==
    /\ [](BadEachJob(args[1]) =>
            /\ pc[1] \in {"idle", "resolve", "done"}
            /\ ops[1] = {}
            /\ loc[1].staging = <<>>
            /\ result[1].kind \in {"none", "panic"}
            /\ Returned(1) => result[1] = Panicked
            /\ \A i \in DOMAIN disk : disk[i].by = NoIno)
    /\ [][BadEachJob(args[1]) => UNCHANGED <<fs, disk>>]_vars

\* a list of two chapters has been refused although skip_existing is set and
\* the file the early exit looks for exists
C13_Witness ==
    /\ Returned(1)
    /\ result[1] = Panicked
    /\ args[1].method = "Each"
    /\ Len(args[1].chapters) >= 2
    /\ args[1].skip_existing
    /\ Exists(SkipCheckPath(OutputPathWithoutExt(args[1])))

(***************************************************************************)
(* SpecConcurrent: two callers, each building one volume once, their steps *)
(* interleaved in any order.  The two volumes are volumes 1 and 2 of a     *)
(* Ranges job, or two chapters of an Each job whose names differ after the *)
(* last '.' only; each path of each volume is absent or present at the     *)
(* start.                                                                  *)
(***************************************************************************)
ConcurrentPairs ==
    {<<RangesArgs(<<1>>, FALSE, FALSE),
       [RangesArgs(<<>>, FALSE, FALSE) EXCEPT !.volume = 2]>>,
     <<EachArgs(ChapterName, <<0>>, FALSE, FALSE),
       EachArgs(DottedName, <<0>>, FALSE, FALSE)>>}

\* the files of the second volume are files of their own
OtherFiles(d) ==
    [x \in DOMAIN d |->
        IF d[x].kind = "file" THEN FileEntry(<<0, d[x].ino[2] + 3>>)
        ELSE d[x]]

ConcurrentDirs(a1, a2) ==
    {[x \in DOMAIN d1 \cup DOMAIN d2 |->
         IF x \in DOMAIN d1 THEN d1[x] ELSE OtherFiles(d2)[x]] :
     d1 \in {d \in InitialDirs(a1) : \A x \in DOMAIN d : d[x].kind # "dir"},
     d2 \in {d \in InitialDirs(a2) : \A x \in DOMAIN d : d[x].kind # "dir"}}

InitConcurrent ==
    \E pair \in ConcurrentPairs :
        InitWith({pair[1]}, {pair[2]}, ConcurrentDirs(pair[1], pair[2]))

NextConcurrent == \E p \in Procs : Call(p, 1) \/ Step(p)

SpecConcurrent == InitConcurrent /\ [][NextConcurrent]_vars

\* the staging and the final path of the volume of p
OwnPaths(p) == {StagingOf(args[p]), FinalOf(args[p])}

DisjointStaging == StagingOf(args[1]) # StagingOf(args[2])

\* this step leaves the files of the volume of q as they are: the paths,
\* what they name, and the contents of the archive q is writing
LeavesAlone(q) ==
    /\ \A x \in OwnPaths(q) :
          /\ (x \in DOMAIN fs') = (x \in DOMAIN fs)
          /\ x \in DOMAIN fs =>
                /\ fs'[x] = fs[x]
                /\ fs[x].kind = "file" => disk'[fs[x].ino] = disk[fs[x].ino]
    /\ loc[q].ino # NoIno => disk'[loc[q].ino] = disk[loc[q].ino]

\* the result of the call of p is the one a call running alone gives from
\* the files its volume had when it started (a failure of the environment
\* set apart), and the volume is published exactly when that call publishes
SequentialOutcome(p) ==
    LET a == args[p]
        st == StagingOf(a)
        fin == FinalOf(a)
        f0 == loc[p].fs0
    IN  IF EnvFailure(result[p]) THEN NothingPublished(p)
        ELSE IF st \in DOMAIN f0 /\ ~a.overwrite
        THEN /\ result[p] = Err("OutputVolumeFileAlreadyExists", st)
             /\ ops[p] = {}
        ELSE IF fin \in DOMAIN f0 /\ ~a.overwrite
        THEN /\ result[p] = Err("OutputVolumeFileAlreadyExists", fin)
             /\ NothingPublished(p)
        ELSE IF fin \in DOMAIN f0 /\ f0[fin].kind = "file"
        THEN /\ result[p] = Err("OutputVolumeFileIsADirectory", fin)
             /\ NothingPublished(p)
        ELSE /\ result[p] = Ok(st)
             /\ ~Exists(st)
             /\ PublishedBy(fin, Tag(p))
             /\ CompleteArchive(a, disk[fs[fin].ino])

(***************************************************************************)
(* C14.  Two build_volume calls for different volumes with disjoint        *)
(* staging paths, their steps interleaved in any order, never touch each   *)
(* other's staging or final file, and each ends with the result and the    *)
(* published files it has when the calls run one after the other.          *)
(***************************************************************************)
C14_ConcurrentVolumesIndependent ==
    /\ [][DisjointStaging =>
            \A p, q \in Procs :
                (p # q /\ pc'[p] # pc[p]) => LeavesAlone(q)]_vars
    /\ [](DisjointStaging =>
            \A p \in Procs : Returned(p) => SequentialOutcome(p))

\* the first caller has published while the second one, which started
\* before that, is about to publish
C14_Witness ==
    /\ DisjointStaging
    /\ Published(1)
    /\ pc[2] = "rename"
    /\ FinalOf(args[1]) \notin DOMAIN loc[2].fs0
    /\ PublishedBy(FinalOf(args[1]), Tag(1))

\* the page entries of the archive of p whose bytes have been written
WrittenEntries(p) ==
    IF loc[p].ino = NoIno THEN {}
    ELSE {e \in {Archive(p).entries[i] : i \in 1..Len(Archive(p).entries)} :
             e.kind = "file" /\ e.data # NoData}

IsWebpFile(file) == Extension(file) = ExtWebp

(***************************************************************************)
(* C15.  A page is transcoded iff WebP transcoding is enabled and the      *)
(* source file is not already a WebP file: with compress_webp off no page  *)
(* is transcoded; with it on, a source file whose name ends in '.webp' is  *)
(* copied byte for byte, every other source file is decoded and            *)
(* re-encoded.                                                             *)
(***************************************************************************)
C15_TranscodeUnlessWebp ==
    \A e \in WrittenEntries(1) :
        (e.data.enc = "webp")
            <=> (args[1].compress_webp /\ ~IsWebpFile(e.data.src.file))

(***************************************************************************)
(* SpecDisplay: one build of an Each volume whose chapter name is shorter  *)
(* or longer than the 50 characters a display name is cut at, with and     *)
(* without display_full_names.                                             *)
(***************************************************************************)
LongName == [i \in 1..51 |-> IF i = 51 THEN "z" ELSE "n"]

DisplayJobs ==
    {[EachArgs(name, <<k>>, FALSE, FALSE) EXCEPT !.display_full_names = f[1],
                                                  !.compress_webp = f[2]] :
        name \in {ChapterName, LongName}, k \in 0..MaxPages,
        f \in BOOLEAN \X BOOLEAN}

InitDisplay ==
    \E a \in DisplayJobs : InitWith({a}, {BaseArgs}, PageDirs(a))

NextDisplay == Call(1, 1) \/ Step(1)

SpecDisplay == InitDisplay /\ [][NextDisplay]_vars

\* the job that differs from a in display_full_names only
Twin(a) == [a EXCEPT !.display_full_names = ~@]

\* the name the build of job b gives the j-th entry of its archive: the
\* chapter directory, then the pages in order
EntryNameOf(b, pics, j) ==
    IF j = 1 THEN ZipDirName(b, b.chapters[1])
    ELSE PathInZip(ZipDirName(b, b.chapters[1]),
                   NameInZip(b, OutputPathWithoutExt(b), b.chapters[1], pics,
                             j - 2, pics[j - 1]))

(***************************************************************************)
(* C16.  The display name (cut at 50 characters with an ellipsis unless    *)
(* display_full_names) is used for reporting only: two Each builds that    *)
(* differ in display_full_names only have the same staging path, final     *)
(* path, chapter-directory entry name and page entry names, for chapter    *)
(* names shorter and longer than 50 characters.                            *)
(***************************************************************************)
C16_DisplayNameOnlyReported ==
    args[1].method = "Each" =>
        LET b == Twin(args[1])
        IN  /\ loc[1].staging # <<>>
               => loc[1].staging = StagingPath(OutputPathWithoutExt(b))
            /\ loc[1].complete # <<>>
               => loc[1].complete
                     = CompletePath(b, OutputPathWithoutExt(b), loc[1].counter)
            /\ loc[1].ino # NoIno
               => \A j \in 1..Len(Archive(1).entries) :
                     Archive(1).entries[j].path
                        = EntryNameOf(b, loc[1].pics, j)

\* the early exit of lines 95-106 applies to the call of p
EarlyExit(p) ==
    /\ args[p].method = "Each"
    /\ args[p].skip_existing
    /\ SkipCheckPath(OutputPathWithoutExt(args[p])) \in DOMAIN loc[p].fs0

\* the staging path existed when the call of p started
StagingCollision(p) == StagingOf(args[p]) \in DOMAIN loc[p].fs0

(***************************************************************************)
(* C17.  Before the staging file is created build_volume applies the Each  *)
(* + skip_existing early exit, then the staging collision check: with the  *)
(* staging path existing and overwrite off (and no early exit) the call    *)
(* fails with the output-already-exists error naming the staging path, the *)
(* existing staging file neither truncated nor modified; with overwrite on *)
(* the existing staging file is truncated and reused.                      *)
(***************************************************************************)
C17_StagingCollisionCheck ==
    /\ [][pc[1] \in {"resolve", "skip_check", "staging_check"}
            => UNCHANGED <<fs, disk>>]_vars
    /\ []((Returned(1) /\ EachAssertHolds(args[1])) =>
            /\ EarlyExit(1)
               => /\ result[1] = Ok(SkipCheckPath(OutputPathWithoutExt(args[1])))
                  /\ ops[1] = {}
            /\ (~EarlyExit(1) /\ StagingCollision(1) /\ ~args[1].overwrite)
               => /\ result[1] = Err("OutputVolumeFileAlreadyExists",
                                     StagingOf(args[1]))
                  /\ ops[1] = {}
                  /\ fs = loc[1].fs0
            /\ "create" \in ops[1]
               => ~EarlyExit(1) /\ (StagingCollision(1) => args[1].overwrite))
    /\ [][(pc[1] = "create" /\ pc'[1] # "done" /\ Exists(loc[1].staging))
            => /\ args[1].overwrite
               /\ fs' = fs
               /\ fs[loc[1].staging].kind = "file"
               /\ loc'[1].ino = fs[loc[1].staging].ino
               /\ disk'[loc'[1].ino] = EmptyArchive(Tag(1))]_vars

\* a call without overwrite has been refused because of a stale staging
\* file, which is still there
C17_Witness ==
    /\ Returned(1)
    /\ EachAssertHolds(args[1])
    /\ ~EarlyExit(1)
    /\ StagingCollision(1)
    /\ ~args[1].overwrite
    /\ result[1] = Err("OutputVolumeFileAlreadyExists", StagingOf(args[1]))
    /\ fs[StagingOf(args[1])].kind = "file"

\* the call of p failed after it had created its staging file
FailedAfterStaging(p) == Failed(p) /\ loc[p].ino # NoIno

(***************************************************************************)
(* C18.  A build that fails at any step after the staging file was created *)
(* (failing at publish because the final path exists without overwrite     *)
(* included) leaves the staging file on disk: nothing removes it, nothing  *)
(* is retried, so the next build of the volume without overwrite fails     *)
(* with the staging-collision error before writing anything, and only a    *)
(* build with overwrite gets past the stale staging file.                  *)
(***************************************************************************)
C18_StaleStagingFile ==
    /\ [](FailedAfterStaging(1) =>
            /\ Exists(loc[1].staging)
            /\ fs[loc[1].staging] = FileEntry(loc[1].ino))
    /\ [][Failed(1) => UNCHANGED <<fs, disk>>]_vars
    /\ [](prev[1].stale =>
            /\ StagingCollision(1)
            /\ "create" \in ops[1] => args[1].overwrite
            /\ (Returned(1) /\ ~args[1].overwrite)
               => /\ result[1] = Err("OutputVolumeFileAlreadyExists",
                                     StagingOf(args[1]))
                  /\ ops[1] = {}
                  /\ fs = loc[1].fs0)

\* after a build that failed with its staging file written, the next build
\* without overwrite has been refused
C18_Witness ==
    /\ prev[1].stale
    /\ Returned(1)
    /\ ~args[1].overwrite
    /\ result[1] = Err("OutputVolumeFileAlreadyExists", StagingOf(args[1]))
    /\ ~Exists(FinalOf(args[1]))

\* the number of chapter directories among the first i entries of ar
DirsUpTo(ar, i) ==
    Cardinality({j \in 1..i : ar.entries[j].kind = "dir"})

\* the order the pages of a build of job a are sorted in
PageOrder(a, s, t) ==
    IF a.simple_sorting THEN LexCmp(s, t) < 0 ELSE NaturalPathsCmp(s, t) <= 0

\* entry i of ar is the entry a sequential build of job a writes in that
\* place: the directory of the next chapter once the chapter before has all
\* its pages, or the next page of the chapter, after the page before it
InSequence(a, ar, i) ==
    LET e == ar.entries[i]
        c == DirsUpTo(ar, i)
        d == IF e.kind = "dir" THEN i ELSE DirOf(ar, i)
        k == i - d
    IN  /\ c \in 1..Len(a.chapters)
        /\ d >= 1
        /\ ar.entries[d].path = ZipDirName(a, a.chapters[c])
        /\ k <= PageCount(a, c)
        /\ (e.kind = "dir" /\ c > 1)
           => (i - 1) - DirOf(ar, i) = PageCount(a, c - 1)
        /\ (e.kind = "file" /\ e.data # NoData)
           => /\ e.data.src.ch = a.chapters[c].num
              /\ e.data.src.file \in a.chapters[c].files
              /\ e.data.enc = IF ShouldConvert(a, e.data.src.file)
                              THEN "webp" ELSE "raw"
              /\ k > 1 => PageOrder(a, ar.entries[i - 1].data.src.file,
                                    e.data.src.file)
        /\ i < Len(ar.entries) => (e.kind = "file" => e.data # NoData)

(***************************************************************************)
(* C19.  Within one build the archive is written strictly sequentially:    *)
(* chapters in the order supplied, each chapter's directory entry before   *)
(* its page entries, the pages of a chapter in sorted order, each page     *)
(* read (transcoded if requested) and written completely before the next   *)
(* entry is started, the archive finished only after the last page of the  *)
(* last chapter, publishing only after the archive is finished.            *)
(***************************************************************************)
C19_StrictlySequential ==
    /\ [](loc[1].ino # NoIno =>
            LET ar == Archive(1)
            IN  /\ \A i \in 1..Len(ar.entries) : InSequence(args[1], ar, i)
                /\ loc[1].base = OutputPathWithoutExt(args[1])
                /\ ("finish" \in ops[1] \/ ar.finished)
                   => /\ Len(ar.entries)
                           = Len(args[1].chapters) + TotalPages(args[1])
                      /\ WrittenPages(ar) = TotalPages(args[1])
                /\ "rename" \in ops[1] => ar.finished)
    /\ [](ops[1] # {} => "create" \in ops[1] /\ loc[1].base # <<>>)
    /\ [][(loc[1].ino # NoIno /\ loc'[1].ino = loc[1].ino) =>
            /\ Archive(1).finished => disk'[loc[1].ino] = Archive(1)
            /\ Len(disk'[loc[1].ino].entries) >= Len(Archive(1).entries)
            /\ SubSeq(disk'[loc[1].ino].entries, 1,
                      Len(Archive(1).entries) - 1)
                  = SubSeq(Archive(1).entries, 1,
                           Len(Archive(1).entries) - 1)]_vars

\* a published volume of two chapters, two pages each
C19_Witness ==
    /\ Published(1)
    /\ Len(args[1].chapters) = 2
    /\ PageCount(args[1], 1) = 2
    /\ PageCount(args[1], 2) = 2
    /\ Len(Archive(1).entries) = 6
    /\ Archive(1).entries[4].kind = "dir"

(***************************************************************************)
(* SpecNumbers: one build of a volume of one chapter holding from no page  *)
(* to MaxPics pages, so that page counts of one and of two digits occur.   *)
(***************************************************************************)
MaxPics == 11

NumberJobs ==
    {[RangesArgs(<<n>>, FALSE, FALSE) EXCEPT !.compress_webp = w] :
        n \in 0..MaxPics, w \in BOOLEAN}
    \cup {[EachArgs(ChapterName, <<n>>, FALSE, FALSE)
              EXCEPT !.compress_webp = w] : n \in 0..MaxPics, w \in BOOLEAN}
    \cup {[SingleArgs(<<n>>, FALSE) EXCEPT !.simple_sorting = w] :
        n \in 0..MaxPics, w \in BOOLEAN}

InitNumbers ==
    \E a \in NumberJobs : InitWith({a}, {BaseArgs}, PageDirs(a))

NextNumbers == Call(1, 1) \/ Step(1)

SpecNumbers == InitNumbers /\ [][NextNumbers]_vars

\* where the last "_Pic_" of an entry name starts
PicMark(path) ==
    LET marks == {i \in 1..(Len(path) - Len(StrPic) + 1) :
                     SubSeq(path, i, i + Len(StrPic) - 1) = StrPic}
    IN  CHOOSE i \in marks : \A j \in marks : j <= i

\* the page-number field of a page entry name: what stands between the
\* last "_Pic_" and the '.' of the extension
NumberField(path) ==
    SubSeq(path, PicMark(path) + Len(StrPic), LastDot(path) - 1)

\* the indexes of the page entries of ar that lie in the chapter of entry d
PagesOf(ar, d) ==
    {i \in 1..Len(ar.entries) :
        ar.entries[i].kind = "file" /\ DirOf(ar, i) = d}

(***************************************************************************)
(* C20.  Within each chapter the page number in a page entry name runs     *)
(* from 0 to (page count - 1), zero-padded to the number of decimal digits *)
(* of the chapter's page count: for every chapter size the page-number     *)
(* fields of a chapter have the same width, are pairwise distinct, and     *)
(* their lexicographic order is the sorted page order.                     *)
(***************************************************************************)
C20_PageNumberFields ==
    loc[1].ino # NoIno =>
        LET ar == Archive(1)
            Field(i) == NumberField(ar.entries[i].path)
        IN  \A d \in {j \in 1..Len(ar.entries) : ar.entries[j].kind = "dir"} :
                LET n == PageCount(args[1], DirsUpTo(ar, d))
                IN  /\ \A i \in PagesOf(ar, d) :
                          /\ i - d \in 1..n
                          /\ IsPadded(Field(i), i - d - 1, Len(ToDec(n)))
                          /\ Len(Field(i)) = Len(ToDec(n))
                    /\ \A i, j \in PagesOf(ar, d) :
                          i < j => LexCmp(Field(i), Field(j)) < 0

\* a published chapter whose page count has two digits
C20_Witness ==
    /\ Published(1)
    /\ PageCount(args[1], 1) >= 10
    /\ Cardinality(PagesOf(Archive(1), 1)) = PageCount(args[1], 1)
    /\ Len(NumberField(Archive(1).entries[2].path)) = 2

====
